---- MODULE Spec2Model ----
(***************************************************************************)
(* Billing / fines subsystem of evergreen-universe-rs:                     *)
(*   evergreen/src/common/billing.rs                                       *)
(* Money is kept in integer minor units, so util::fpdiff is plain          *)
(* subtraction.  The persistence layer (Editor) is a store of typed rows;  *)
(* a search returns the rows matching the query in the requested order.    *)
(***************************************************************************)
EXTENDS Integers, Sequences, FiniteSets, TLC

\* ---------------------------------------------------------------- bounds
MaxBills == 2
MaxPays == 2
MaxAmt == 2
MaxPush == 3
LedgerBills == 1
MaxGraceDays == 2
LastClosedDay == 2
MaxClosedDates == 1
MaxTerms == 2
MaxNow == 6
MaxVoidPays == 1
MaxAdjustPays == 3

\* ------------------------------------------------------- program constants
DAY_OF_SECONDS == 86400
XactId == 1
HoursDays == 6
ScanLimit == 366

VARIABLES
    \* the store
    bills,            \* money.billing rows of the transaction, billing_ts ascending
    payments,         \* money.payment rows of the transaction, payment_ts ascending
    xact_finish,      \* money.billable_xact.xact_finish: "null" or "now"
    circ,             \* linked action.circulation: "none", "open" (stop_fines null), "stopped"
    \* bill_payment_map_for_xact locals
    apc,              \* position in bill_payment_map_for_xact
    maps,             \* Vec<BillPaymentMap>
    wpayments,        \* the working `payments` vector
    used_adjustments, \* HashSet of account adjustment ids
    used_payments,    \* HashSet of payment ids (the one live at this position)
    rmi,              \* residual pass: index of the map at hand
    rpi,              \* residual pass: index of the payment at hand
    \* the ledger's calls
    last,             \* what the latest call did: its writes, its result, and the call before it
    \* extend_grace_period
    gin,              \* its arguments and what the settings and the store hold for the org
    g,                \* its position, locals and result
    \* interval_to_seconds
    interval,         \* the terms the interval string was written from
    iv,               \* its position and result
    \* generate_fines_for_xact
    fin,              \* its arguments, the clock, the settings and the overdue billings on file
    fl,               \* its position and locals
    \* requests running side by side, each through its own editor
    reqs,             \* per request: the call, its position and its locals
    \* void_or_zero_bills_of_type
    pol               \* its arguments, the clock and the settings of the context org

vars == <<bills, payments, xact_finish, circ,
          apc, maps, wpayments, used_adjustments, used_payments, rmi, rpi, last, gin, g,
          interval, iv, fin, fl, reqs, pol>>

graceVars == <<gin, g>>
dateVars == <<interval, iv>>
fineVars == <<fin, fl>>
restVars == <<dateVars, fineVars, reqs, pol>>

storeVars == <<bills, payments, xact_finish, circ>>
allocVars == <<apc, maps, wpayments, used_adjustments, used_payments, rmi, rpi>>

\* ------------------------------------------------------------------ rows
NoAdjustment == [id |-> 0, amount |-> 0, billing |-> 0]

Billing(i, amt) ==
    [id |-> i, xact |-> XactId, amount |-> amt, voided |-> FALSE,
     voider |-> 0, void_time |-> "null", note |-> <<>>]

\* money.payment row; an account_adjustment payment has its money.account_adjustment
\* row (same id, same amount) fleshed in.
Payment(i, amt, billing) ==
    [id |-> i, xact |-> XactId, amount |-> amt, voided |-> FALSE,
     payment_type |-> IF billing = 0 THEN "cash_payment" ELSE "account_adjustment",
     account_adjustment |-> IF billing = 0 THEN NoAdjustment
                            ELSE [id |-> i, amount |-> amt, billing |-> billing]]

\* util::fpdiff on minor units
fpdiff(a, b) == a - b

SumSeq(s) ==
    LET F[i \in 0..Len(s)] == IF i = 0 THEN 0 ELSE F[i - 1] + s[i]
    IN F[Len(s)]

\* ---------------------------------------------- bill_payment_map_for_xact
\* Mutant of SearchBills: the query without voided: "f".
SearchBillsAnyVoided(bs) == SelectSeq(bs, LAMBDA b : b.xact = XactId)

\* editor.search_with_ops("mb", {xact, voided: "f"}, order_by billing_ts asc)
SearchBills(bs) == SelectSeq(bs, LAMBDA b : b.xact = XactId /\ ~b.voided)

\* editor.search_with_ops("mp", {xact, voided: "f"}, order_by payment_ts asc)
SearchPayments(ps) == SelectSeq(ps, LAMBDA p : p.xact = XactId /\ ~p.voided)

NewMap(bill) ==
    [bill |-> bill, adjustments |-> <<>>, payments |-> <<>>,
     bill_amount |-> bill.amount, adjustment_amount |-> 0]

SeedMaps(bs) == [i \in 1..Len(bs) |-> NewMap(bs[i])]

\* The comparator of payments.sort_by: Less exactly when b's amount is below a's.
SortIsLess(a, b) == b.amount < a.amount

\* slice::sort_by is a stable sort on "compare(a, b) == Less".
RECURSIVE InsertSorted(_, _)
InsertSorted(s, p) ==
    IF s = <<>> THEN <<p>>
    ELSE IF SortIsLess(p, s[Len(s)]) THEN Append(InsertSorted(SubSeq(s, 1, Len(s) - 1), p), s[Len(s)])
    ELSE Append(s, p)

RECURSIVE SortPayments(_)
SortPayments(ps) ==
    IF ps = <<>> THEN <<>>
    ELSE InsertSorted(SortPayments(SubSeq(ps, 1, Len(ps) - 1)), ps[Len(ps)])

\* Mutant of IsMyAdjustment: unused adjustments of any billing are collected.
IsMyAdjustmentAnyBill(p, used, bill) ==
    /\ p.payment_type = "account_adjustment"
    /\ p.account_adjustment.id \notin used

\* The filter chain that collects my_adjustments for one bill (lines 386-394):
\* adjustment-type payments, whose adjustment id is in used_adjustments
\* (the code tests `contains`, not its negation), targeting this bill.
IsMyAdjustment(p, used, bill) ==
    /\ p.payment_type = "account_adjustment"
    /\ p.account_adjustment.id \in used
    /\ p.account_adjustment.billing = bill.id

\* Indices into the working payments of my_adjustments, in vector order.
MyAdjustments(pays, used, bill) ==
    LET F[i \in 0..Len(pays)] ==
            IF i = 0 THEN <<>>
            ELSE IF IsMyAdjustment(pays[i], used, bill) THEN Append(F[i - 1], i)
            ELSE F[i - 1]
    IN F[Len(pays)]

\* One iteration of `for adjustment in my_adjustments.drain(0..)` on map mi,
\* for the adjustment fleshed into working payment pi.  st = [maps, pays, used].
ApplyAdjustment(st, mi, pi) ==
    LET map == st.maps[mi]
        adjustment == st.pays[pi].account_adjustment
        adjust_amount == adjustment.amount
        new_amount == fpdiff(map.bill.amount, adjust_amount)
    IN IF new_amount >= 0
       THEN [maps |-> [st.maps EXCEPT ![mi] =
                        [map EXCEPT !.adjustments = Append(@, adjustment),
                                    !.adjustment_amount = @ + adjust_amount,
                                    !.bill.amount = new_amount]],
             pays |-> st.pays,
             used |-> st.used \cup {adjustment.id}]
       ELSE LET new_adjustment == [adjustment EXCEPT !.amount = map.bill.amount]
            IN [maps |-> [st.maps EXCEPT ![mi] =
                            [map EXCEPT !.adjustments = Append(@, new_adjustment),
                                        !.adjustment_amount = @ + new_adjustment.amount,
                                        !.bill.amount = 0]],
                pays |-> [st.pays EXCEPT ![pi].account_adjustment.amount = -new_amount],
                used |-> st.used]

\* The drain loop over my_adjustments, leaving at the first bill amount of 0.
RECURSIVE ApplyAdjustments(_, _, _)
ApplyAdjustments(st, mi, idxs) ==
    IF idxs = <<>> THEN st
    ELSE LET nxt == ApplyAdjustment(st, mi, Head(idxs))
         IN IF nxt.maps[mi].bill.amount = 0 THEN nxt
            ELSE ApplyAdjustments(nxt, mi, Tail(idxs))

\* `for map in maps.iter_mut()` of the adjustment pass, from map mi on.
RECURSIVE AdjustmentPass(_, _)
AdjustmentPass(st, mi) ==
    IF mi > Len(st.maps) THEN st
    ELSE AdjustmentPass(
            ApplyAdjustments(st, mi, MyAdjustments(st.pays, st.used, st.maps[mi].bill)),
            mi + 1)

\* Mutant of ExactMatchMap: a payment at least as large as the bill matches.
ExactMatchMapAtMost(ms, payment, usedp) ==
    LET hits == {i \in 1..Len(ms) :
                    ms[i].bill.amount <= payment.amount /\ payment.id \notin usedp}
    IN IF hits = {} THEN 0 ELSE CHOOSE i \in hits : \A j \in hits : i <= j

\* The exact-match pass: the first map whose remaining bill amount equals the
\* payment's amount (0 when there is none).  used_payments never holds the
\* payment at hand: each payment is visited once.
ExactMatchMap(ms, payment, usedp) ==
    LET hits == {i \in 1..Len(ms) :
                    ms[i].bill.amount = payment.amount /\ payment.id \notin usedp}
    IN IF hits = {} THEN 0 ELSE CHOOSE i \in hits : \A j \in hits : i <= j

\* Mutant of ExactMatchPass: the matched bill keeps its remaining amount.
RECURSIVE ExactMatchPassKeepsBill(_, _, _)
ExactMatchPassKeepsBill(st, pays, pi) ==
    IF pi > Len(pays) THEN st
    ELSE LET mi == ExactMatchMap(st.maps, pays[pi], st.used_payments)
         IN IF mi = 0 THEN ExactMatchPassKeepsBill(st, pays, pi + 1)
            ELSE ExactMatchPassKeepsBill(
                    [maps |-> [st.maps EXCEPT ![mi].payments = Append(@, pays[pi])],
                     used_payments |-> st.used_payments \cup {pays[pi].id}],
                    pays, pi + 1)

\* `for payment in payments.iter()` of the exact-match pass, from payment pi on.
\* st = [maps, used_payments].
RECURSIVE ExactMatchPass(_, _, _)
ExactMatchPass(st, pays, pi) ==
    IF pi > Len(pays) THEN st
    ELSE LET mi == ExactMatchMap(st.maps, pays[pi], st.used_payments)
         IN IF mi = 0 THEN ExactMatchPass(st, pays, pi + 1)
            ELSE ExactMatchPass(
                    [maps |-> [st.maps EXCEPT ![mi].bill.amount = 0,
                                              ![mi].payments = Append(@, pays[pi])],
                     used_payments |-> st.used_payments \cup {pays[pi].id}],
                    pays, pi + 1)

\* "Remove the used payments from our working list."
RemoveUsed(pays, usedp) == SelectSeq(pays, LAMBDA p : p.id \notin usedp)

\* The residual pass's outer iterator: the first map at or after mi whose
\* remaining bill amount is positive (0 when there is none).
NextOpenMap(ms, mi) ==
    LET open == {i \in mi..Len(ms) : ms[i].bill.amount > 0}
    IN IF open = {} THEN 0 ELSE CHOOSE i \in open : \A j \in open : i <= j

\* One iteration of the residual pass's inner `loop` (lines 474-490) on map mi
\* and working payment pi.  st = [maps, pays, used_payments].
ResidualLoopBody(st, mi, pi) ==
    LET map == st.maps[mi]
        pay == st.pays[pi]
        bill_amount == map.bill.amount
        new_amount == fpdiff(bill_amount, pay.amount)
    IN IF bill_amount > 0
       THEN IF new_amount < 0
            THEN [maps |-> [st.maps EXCEPT ![mi].bill.amount = 0,
                                           ![mi].payments =
                                               Append(@, [pay EXCEPT !.amount = bill_amount])],
                  pays |-> [st.pays EXCEPT ![pi].amount = -new_amount],
                  used_payments |-> st.used_payments]
            ELSE [maps |-> [st.maps EXCEPT ![mi].bill.amount = new_amount,
                                           ![mi].payments = Append(@, pay)],
                  pays |-> st.pays,
                  used_payments |-> st.used_payments \cup {pay.id}]
       ELSE st

\* ------------------------------ bill_payment_map_for_xact, step by step
\* Lines 318-377: both searches, the seeding of the maps, the two early
\* returns and the sort.
AllocLoad ==
    /\ apc = "start"
    /\ LET bs == SearchBills(bills)
           ps == SearchPayments(payments)
       IN /\ maps' = SeedMaps(bs)
          /\ wpayments' = IF Len(bs) = 0 THEN <<>> ELSE SortPayments(ps)
          /\ apc' = IF Len(bs) = 0 \/ Len(ps) = 0 THEN "returned" ELSE "adjust"
    /\ UNCHANGED <<storeVars, last, graceVars, restVars, used_adjustments, used_payments, rmi, rpi>>

\* Lines 379-430.
AllocAdjustmentPass ==
    /\ apc = "adjust"
    /\ LET st == AdjustmentPass([maps |-> maps, pays |-> wpayments, used |-> {}], 1)
       IN /\ maps' = st.maps
          /\ wpayments' = st.pays
          /\ used_adjustments' = st.used
    /\ apc' = "exact"
    /\ UNCHANGED <<storeVars, last, graceVars, restVars, used_payments, rmi, rpi>>

\* Lines 432-461: the exact-match pass, the removal of the used payments and
\* the fresh used_payments set.
AllocExactMatchPass ==
    /\ apc = "exact"
    /\ LET st == ExactMatchPass([maps |-> maps, used_payments |-> {}], wpayments, 1)
       IN /\ maps' = st.maps
          /\ wpayments' = RemoveUsed(wpayments, st.used_payments)
    /\ used_payments' = {}
    /\ apc' = "residual"
    /\ rmi' = 1
    /\ UNCHANGED <<storeVars, last, graceVars, restVars, used_adjustments, rpi>>

\* Lines 464-473 and 494: the outer iterator moves to the next map with a
\* positive remaining amount and the inner iterator to its first payment not
\* in used_payments; with no such map the function returns.
AllocResidualScan ==
    /\ apc = "residual"
    /\ LET mi == NextOpenMap(maps, rmi)
           free == {i \in 1..Len(wpayments) : wpayments[i].id \notin used_payments}
       IN IF mi = 0
          THEN apc' = "returned" /\ UNCHANGED <<rmi, rpi>>
          ELSE IF free = {}
          THEN apc' = "residual" /\ rmi' = mi + 1 /\ UNCHANGED rpi
          ELSE /\ apc' = "loop"
               /\ rmi' = mi
               /\ rpi' = CHOOSE i \in free : \A j \in free : i <= j
    /\ UNCHANGED <<storeVars, last, graceVars, restVars, maps, wpayments, used_adjustments, used_payments>>

\* Lines 474-490: one iteration of `loop`, which has no break.  The pushes onto
\* map.payments are followed up to MaxPush entries.
AllocResidualLoop ==
    /\ apc = "loop"
    /\ Len(maps[rmi].payments) < MaxPush
    /\ LET st == ResidualLoopBody(
                    [maps |-> maps, pays |-> wpayments, used_payments |-> used_payments],
                    rmi, rpi)
       IN /\ maps' = st.maps
          /\ wpayments' = st.pays
          /\ used_payments' = st.used_payments
    /\ UNCHANGED <<storeVars, last, graceVars, restVars, apc, used_adjustments, rmi, rpi>>

\* The rows of one transaction: up to MaxBills billings of a positive amount,
\* up to MaxPays payments, each an ordinary payment (target 0) or an account
\* adjustment targeting one of the billings.
InitStore ==
    /\ \E n \in 0..MaxBills : \E amts \in [1..n -> 1..MaxAmt] :
          bills = [i \in 1..n |-> Billing(i, amts[i])]
    /\ \E m \in 0..MaxPays :
       \E amts \in [1..m -> 0..MaxAmt] :
       \E tgt \in [1..m -> 0..Len(bills)] :
          payments = [i \in 1..m |-> Payment(i, amts[i], tgt[i])]

InitAllocLocals ==
    /\ apc = "start"
    /\ maps = <<>>
    /\ wpayments = <<>>
    /\ used_adjustments = {}
    /\ used_payments = {}
    /\ rmi = 0
    /\ rpi = 0

\* extend_grace_period not called.
NoGraceInput ==
    [grace_period |-> 0, due_date |-> 0, extend |-> FALSE, into_closed |-> FALSE,
     all |-> FALSE, has_hours |-> FALSE, closed_hours |-> {}, closed_dates |-> <<>>]

NoGrace ==
    [pc |-> "idle", due_date |-> 0, new_grace_period |-> 0, counter |-> 0,
     close_days |-> {}, result |-> 0]

\* interval_to_seconds not called.
NoInterval == [pc |-> "idle", amount |-> 0]

IdleDate == interval = <<>> /\ iv = NoInterval

\* generate_fines_for_xact not called.
NoFinesInput ==
    [due_date |-> 0, now |-> 0, recurring_fine |-> 0, max_fine |-> 0,
     fine_interval |-> <<>>, grace_period |-> <<>>, fines |-> <<>>,
     charge_when_closed |-> FALSE, truncate_to_max_fine |-> FALSE]

NoFines ==
    [pc |-> "idle", exit |-> "none", fine_interval |-> 0, grace_period |-> 0,
     current_fine_total |-> 0, last_fine_dt |-> 0, pending_fine_count |-> 0]

IdleFines == fin = NoFinesInput /\ fl = NoFines

\* No request is running beside the call under study.
NoRequests == <<>>

\* void_or_zero_bills_of_type not called.
NoPolicy ==
    [btype_id |-> 0, now |-> 0,
     prohibit_negative_balance_on_lost |-> FALSE,
     prohibit_negative_balance_default |-> FALSE,
     negative_balance_interval_on_lost |-> <<>>,
     negative_balance_interval_default |-> <<>>]

\* The operations outside the one under study are not called.
IdleRest == IdleDate /\ IdleFines /\ reqs = NoRequests /\ pol = NoPolicy

NoCall ==
    [op |-> "none", result |-> "none", requestor |-> 1, found |-> 0, skipped |-> {},
     bill_updates |-> {}, xact_updates |-> 0, checked_for |-> {},
     created_for |-> {}, zeroed |-> {}, penalties |-> 0,
     prev_check |-> -1]

InitAlloc ==
    /\ InitStore
    /\ xact_finish = "null"
    /\ circ = "none"
    /\ InitAllocLocals
    /\ last = NoCall
    /\ gin = NoGraceInput
    /\ g = NoGrace
    /\ IdleRest

NextAlloc ==
    \/ AllocLoad
    \/ AllocAdjustmentPass
    \/ AllocExactMatchPass
    \/ AllocResidualScan
    \/ AllocResidualLoop

SpecAlloc == InitAlloc /\ [][NextAlloc]_vars

\* The call keeps running: while a step that changes its state is possible,
\* one is taken.
SpecAllocFair == SpecAlloc /\ WF_vars(NextAlloc)

\* The rows of one transaction when some of them were voided before the call:
\* any of the billings, any of up to MaxVoidPays payments.
InitStoreVoided ==
    /\ \E n \in 0..MaxBills : \E amts \in [1..n -> 1..MaxAmt] : \E bv \in SUBSET (1..n) :
          bills = [i \in 1..n |->
                     IF i \in bv
                     THEN [Billing(i, amts[i]) EXCEPT !.voided = TRUE, !.voider = 1,
                                                      !.void_time = "now"]
                     ELSE Billing(i, amts[i])]
    /\ \E m \in 0..MaxVoidPays :
       \E amts \in [1..m -> 0..MaxAmt] :
       \E tgt \in [1..m -> 0..Len(bills)] :
       \E pv \in SUBSET (1..m) :
          payments = [i \in 1..m |->
                        [Payment(i, amts[i], tgt[i]) EXCEPT !.voided = (i \in pv)]]

InitAllocVoided ==
    /\ InitStoreVoided
    /\ xact_finish = "null"
    /\ circ = "none"
    /\ InitAllocLocals
    /\ last = NoCall
    /\ gin = NoGraceInput
    /\ g = NoGrace
    /\ IdleRest

SpecAllocVoided == InitAllocVoided /\ [][NextAlloc]_vars

\* bill_payment_map_for_xact as one call on the rows bs, ps: whether it returns,
\* and the maps it returns.  It does not return when the residual pass enters
\* its `loop`: a map with a positive remaining amount and a payment left over.
BillPaymentMapForXact(bs, ps) ==
    LET b == SearchBills(bs)
        p == SearchPayments(ps)
        adj == AdjustmentPass([maps |-> SeedMaps(b), pays |-> SortPayments(p), used |-> {}], 1)
        ex == ExactMatchPass([maps |-> adj.maps, used_payments |-> {}], adj.pays, 1)
        rest == RemoveUsed(adj.pays, ex.used_payments)
    IN IF Len(b) = 0 THEN [returns |-> TRUE, maps |-> <<>>]
       ELSE IF Len(p) = 0 THEN [returns |-> TRUE, maps |-> SeedMaps(b)]
       ELSE [returns |-> NextOpenMap(ex.maps, 1) = 0 \/ rest = <<>>, maps |-> ex.maps]

\* ------------------------------------------------------- check_open_xact
\* money.billable_xact_summary.balance_owed: what the non-voided billings charge
\* less what the non-voided payments paid.
BalanceOwed(bs, ps) ==
    LET b == SearchBills(bs)
        p == SearchPayments(ps)
    IN SumSeq([i \in 1..Len(b) |-> b[i].amount]) - SumSeq([i \in 1..Len(p) |-> p[i].amount])

\* Line 85-88: no circulation, or one whose stop_fines is a string.
NoCircOrComplete(c) == c # "open"

\* Mutant of CheckOpenXactDecision: an open transaction is closed whatever is owed.
CheckOpenXactDecisionNoBalance(zero_owed, xact_open, no_circ_or_complete) ==
    IF xact_open /\ no_circ_or_complete THEN "close"
    ELSE IF ~zero_owed /\ ~xact_open THEN "reopen"
    ELSE "none"

\* Mutant of CheckOpenXactDecision: the circulation is not looked at.
CheckOpenXactDecisionNoCirc(zero_owed, xact_open, no_circ_or_complete) ==
    IF zero_owed
    THEN IF xact_open THEN "close" ELSE "none"
    ELSE IF ~xact_open THEN "reopen" ELSE "none"

\* Lines 90-112: what check_open_xact does to the transaction.
CheckOpenXactDecision(zero_owed, xact_open, no_circ_or_complete) ==
    IF zero_owed
    THEN IF xact_open /\ no_circ_or_complete THEN "close" ELSE "none"
    ELSE IF ~xact_open
         THEN IF ~zero_owed /\ ~xact_open THEN "reopen" ELSE "none"
         ELSE "none"

\* check_open_xact on the rows at hand: the decision and the xact_finish it leaves.
CheckOpenXactOn(xf, bs, ps, c) ==
    LET d == CheckOpenXactDecision(BalanceOwed(bs, ps) = 0, xf = "null", NoCircOrComplete(c))
    IN [decision |-> d,
        xact_finish |-> IF d = "close" THEN "now" ELSE IF d = "reopen" THEN "null" ELSE xf,
        updates |-> IF d = "none" THEN 0 ELSE 1]

\* The record of a call: found is the number of rows its search by id matches,
\* prev_check the number of updates of the call before it when that was
\* check_open_xact (-1 otherwise).
Called(op, result, found, req) ==
    [NoCall EXCEPT !.op = op, !.result = result, !.found = found, !.requestor = req,
                   !.prev_check = IF last.op = "check_open_xact" THEN last.xact_updates
                                  ELSE -1]

CheckOpenXact ==
    /\ \E r \in {CheckOpenXactOn(xact_finish, bills, payments, circ)} :
          /\ xact_finish' = r.xact_finish
          /\ last' = [Called("check_open_xact", "ok", 0, 1) EXCEPT
                          !.xact_updates = r.updates]
    /\ UNCHANGED <<bills, payments, circ, allocVars, graceVars, restVars>>

\* ------------------------------------------------------------ void_bills
\* editor.search("mb", {"id": ids}): positions of the matching rows.
SearchBillsById(bs, ids) ==
    LET F[i \in 0..Len(bs)] ==
            IF i = 0 THEN <<>>
            ELSE IF bs[i].id \in ids THEN Append(F[i - 1], i) ELSE F[i - 1]
    IN F[Len(bs)]

\* Lines 53-59: a note is a sequence of lines; a null note has none.
VoidNote(orig_note, maybe_note) ==
    IF orig_note # <<>>
    THEN IF maybe_note # <<>> THEN orig_note \o maybe_note ELSE orig_note
    ELSE IF maybe_note # <<>> THEN maybe_note ELSE orig_note

\* Mutant of VoidOne: a bill that is already voided is voided again.
VoidOneAgain(st, bi, maybe_note, req, ps, c) ==
    LET bs2 == [st.bills EXCEPT
                    ![bi] = [@ EXCEPT !.voided = TRUE, !.voider = req, !.void_time = "now",
                                      !.note = VoidNote(@, maybe_note)]]
        chk == CheckOpenXactOn(st.xact_finish, bs2, ps, c)
    IN [bills |-> bs2,
        xact_finish |-> chk.xact_finish,
        bill_updates |-> st.bill_updates \cup {st.bills[bi].id},
        xact_updates |-> st.xact_updates + chk.updates,
        checked_for |-> st.checked_for \cup {st.bills[bi].id},
        skipped |-> st.skipped,
        penalty_users |-> st.penalty_users \cup {<<1, 1>>}]

\* Mutant of VoidOne: the voided row is written and check_open_xact is left out.
VoidOneUnchecked(st, bi, maybe_note, req, ps, c) ==
    IF st.bills[bi].voided THEN [st EXCEPT !.skipped = @ \cup {st.bills[bi].id}]
    ELSE [st EXCEPT
            !.bills = [@ EXCEPT
                         ![bi] = [@ EXCEPT !.voided = TRUE, !.voider = req,
                                           !.void_time = "now",
                                           !.note = VoidNote(@, maybe_note)]],
            !.bill_updates = @ \cup {st.bills[bi].id},
            !.checked_for = @ \cup {st.bills[bi].id},
            !.penalty_users = @ \cup {<<1, 1>>}]

\* Lines 31-63: one iteration of `for mut bill in bills.drain(0..)` on the row at
\* position bi.  st carries the rows and what the call has written so far.
VoidOne(st, bi, maybe_note, req, ps, c) ==
    IF st.bills[bi].voided THEN [st EXCEPT !.skipped = @ \cup {st.bills[bi].id}]
    ELSE LET bs2 == [st.bills EXCEPT
                        ![bi] = [@ EXCEPT !.voided = TRUE, !.voider = req, !.void_time = "now",
                                          !.note = VoidNote(@, maybe_note)]]
             chk == CheckOpenXactOn(st.xact_finish, bs2, ps, c)
         IN [bills |-> bs2,
             xact_finish |-> chk.xact_finish,
             bill_updates |-> st.bill_updates \cup {st.bills[bi].id},
             xact_updates |-> st.xact_updates + chk.updates,
             checked_for |-> st.checked_for \cup {st.bills[bi].id},
             skipped |-> st.skipped,
             penalty_users |-> st.penalty_users \cup {<<1, 1>>}]

RECURSIVE VoidLoop(_, _, _, _, _, _)
VoidLoop(st, idxs, maybe_note, req, ps, c) ==
    IF idxs = <<>> THEN st
    ELSE VoidLoop(VoidOne(st, Head(idxs), maybe_note, req, ps, c),
                  Tail(idxs), maybe_note, req, ps, c)

\* Mutant of VoidBillsFound: the call goes on when the search finds no row.
VoidBillsFoundAlways(found) == TRUE

\* Lines 27-29: the search found at least one row.
VoidBillsFound(found) == Len(found) # 0

\* void_bills(editor, billing_ids, maybe_note), called by requestor req (0: the
\* editor has none).
VoidBills(ids, maybe_note, req) ==
    \E found \in {SearchBillsById(bills, ids)} :
       IF req = 0 \/ ~VoidBillsFound(found)
       THEN /\ last' = Called("void_bills", "err", Len(found), req)
            /\ UNCHANGED <<storeVars, allocVars, graceVars, restVars>>
       ELSE \E st \in {VoidLoop(
                        [bills |-> bills, xact_finish |-> xact_finish, bill_updates |-> {},
                         xact_updates |-> 0, checked_for |-> {}, skipped |-> {},
                         penalty_users |-> {}],
                        found, maybe_note, req, payments, circ)} :
               /\ bills' = st.bills
               /\ xact_finish' = st.xact_finish
               /\ last' = [Called("void_bills", "ok", Len(found), req) EXCEPT
                              !.bill_updates = st.bill_updates,
                              !.xact_updates = st.xact_updates,
                              !.checked_for = st.checked_for,
                              !.skipped = st.skipped,
                              !.penalties = Cardinality(st.penalty_users)]
               /\ UNCHANGED <<payments, circ, allocVars, graceVars, restVars>>

\* --------------------------------------------------- adjust_bills_to_zero
\* Lines 247-254: the map of the bill (0 when there is none).
MapOfBill(ms, bill) ==
    LET hits == {i \in 1..Len(ms) : ms[i].bill.id = bill.id}
    IN IF hits = {} THEN 0 ELSE CHOOSE i \in hits : \A j \in hits : i <= j

\* Line 258: the non-adjusted balance of the bill.
NonAdjustedBalance(map) == fpdiff(map.bill_amount, map.adjustment_amount)

\* Lines 262-264: the bill is skipped as already adjusted.
AlreadyAdjusted(map) == NonAdjustedBalance(map) <= 0

\* Lines 266-268: the amount of the adjustment, capped at xact_total.
AmountToAdjust(map, xact_total) ==
    IF NonAdjustedBalance(map) > xact_total THEN xact_total ELSE NonAdjustedBalance(map)

\* Lines 246-291: one iteration of `for bill in bills.iter_mut()` on the row at
\* position bi.  st carries the maps, the payment rows and what the call created.
AdjustOne(st, bi, xact_total) ==
    LET bill == bills[bi]
        mi == MapOfBill(st.maps, bill)
    IN IF mi = 0 THEN st
       ELSE IF AlreadyAdjusted(st.maps[mi]) THEN st
       ELSE LET amount_to_adjust == AmountToAdjust(st.maps[mi], xact_total)
                payment == Payment(Len(st.payments) + 1, amount_to_adjust, bill.id)
                new_bill_amount == fpdiff(bill.amount, amount_to_adjust)
            IN [maps |-> [st.maps EXCEPT
                             ![mi].adjustment_amount = @ + amount_to_adjust,
                             ![mi].adjustments = Append(@, payment.account_adjustment)],
                payments |-> Append(st.payments, payment),
                created_for |-> st.created_for \cup {bill.id},
                zeroed |-> IF new_bill_amount = 0 THEN st.zeroed \cup {bill.id}
                           ELSE st.zeroed]

RECURSIVE AdjustLoop(_, _, _)
AdjustLoop(st, idxs, xact_total) ==
    IF idxs = <<>> THEN st
    ELSE AdjustLoop(AdjustOne(st, Head(idxs), xact_total), Tail(idxs), xact_total)

\* adjust_bills_to_zero(editor, bill_ids, note) by requestor req.  The call does
\* not return when bill_payment_map_for_xact does not.  The payment rows are
\* followed up to max_rows of them.
AdjustBillsToZeroUpTo(ids, req, max_rows) ==
    \E found \in {SearchBillsById(bills, ids)} :
       IF Len(found) = 0
       THEN /\ last' = Called("adjust_bills_to_zero", "ok", Len(found), req)
            /\ UNCHANGED <<storeVars, allocVars, graceVars, restVars>>
       ELSE \E alloc \in {BillPaymentMapForXact(bills, payments)} :
          IF ~alloc.returns
          THEN /\ last' = Called("adjust_bills_to_zero", "diverges", Len(found), req)
               /\ UNCHANGED <<storeVars, allocVars, graceVars, restVars>>
          ELSE IF alloc.maps = <<>>
          THEN /\ last' = Called("adjust_bills_to_zero", "ok", Len(found), req)
               /\ UNCHANGED <<storeVars, allocVars, graceVars, restVars>>
          ELSE \E xact_total \in {SumSeq([i \in 1..Len(alloc.maps) |-> alloc.maps[i].bill.amount])} :
               \E st \in {AdjustLoop([maps |-> alloc.maps, payments |-> payments,
                                      created_for |-> {}, zeroed |-> {}], found, xact_total)} :
               \E chk \in {CheckOpenXactOn(xact_finish, bills, st.payments, circ)} :
                  /\ Len(st.payments) <= max_rows
                  /\ payments' = st.payments
                  /\ xact_finish' = chk.xact_finish
                  /\ last' = [Called("adjust_bills_to_zero", "ok", Len(found), req) EXCEPT
                                  !.created_for = st.created_for,
                                  !.zeroed = st.zeroed,
                                  !.xact_updates = chk.updates,
                                  !.penalties = 1]
                  /\ UNCHANGED <<bills, circ, allocVars, graceVars, restVars>>

AdjustBillsToZero(ids, req) == AdjustBillsToZeroUpTo(ids, req, MaxPays)

\* ------------------------------------------------------------ the ledger
\* The transaction as the ledger calls find it: up to LedgerBills billings, none
\* voided yet, and at most one ordinary payment.
InitLedger ==
    /\ \E n \in 0..LedgerBills : \E amts \in [1..n -> 1..MaxAmt] :
          bills = [i \in 1..n |-> Billing(i, amts[i])]
    /\ payments \in {<<>>} \cup {<<Payment(1, a, 0)>> : a \in 1..MaxAmt}
    /\ xact_finish \in {"null", "now"}
    /\ circ \in {"none", "open", "stopped"}
    /\ InitAllocLocals
    /\ last = NoCall
    /\ gin = NoGraceInput
    /\ g = NoGrace
    /\ IdleRest

NextLedger ==
    \/ CheckOpenXact
    \/ \E ids \in SUBSET (1..(Len(bills) + 1)) : \E maybe_note \in {<<>>, <<"VOIDED">>} :
          VoidBills(ids, maybe_note, 1)
    \/ \E ids \in SUBSET (1..(Len(bills) + 1)) : VoidBills(ids, <<>>, 0)
    \/ \E ids \in SUBSET (1..(Len(bills) + 1)) : AdjustBillsToZero(ids, 1)

SpecLedger == InitLedger /\ [][NextLedger]_vars

\* adjust_bills_to_zero on a transaction of several billings: up to MaxBills
\* billings, none voided, at most one ordinary payment, and the payment rows
\* followed up to MaxAdjustPays of them.
InitAdjust ==
    /\ \E n \in 0..MaxBills : \E amts \in [1..n -> 1..MaxAmt] :
          bills = [i \in 1..n |-> Billing(i, amts[i])]
    /\ payments \in {<<>>} \cup {<<Payment(1, a, 0)>> : a \in 1..MaxAmt}
    /\ xact_finish \in {"null", "now"}
    /\ circ \in {"none", "open", "stopped"}
    /\ InitAllocLocals
    /\ last = NoCall
    /\ gin = NoGraceInput
    /\ g = NoGrace
    /\ IdleRest

NextAdjust ==
    \E ids \in SUBSET (1..(Len(bills) + 1)) : AdjustBillsToZeroUpTo(ids, 1, MaxAdjustPays)

SpecAdjust == InitAdjust /\ [][NextAdjust]_vars

\* ------------------------------------------------------ extend_grace_period
\* Times are seconds; time 0 is midnight, local time, at the start of a Sunday,
\* and the local zone keeps one offset, so adding a day adds DAY_OF_SECONDS.

\* due_date.date_naive().weekday().num_days_from_sunday()
Weekday(ts) == (ts \div DAY_OF_SECONDS) % 7

\* An actor.org_unit.closed row.
ClosedDate(first_day, last_day) ==
    [close_start |-> first_day * DAY_OF_SECONDS,
     close_end |-> last_day * DAY_OF_SECONDS + (DAY_OF_SECONDS - 1)]

\* The guard that skips the interval check entirely.
GraceAppliesAlways(grace_period) == TRUE

\* Only intervals of a day or more are extended.
GraceApplies(grace_period) == ~(grace_period < DAY_OF_SECONDS)

\* The days whose hours-of-operation open and close are both "00:00:00",
\* among the days the loop visits.
CloseDays(closed_hours) == {day \in 0..(HoursDays - 1) : day \in closed_hours}

\* The closed-date rows whose range holds the timestamp, in store order.
SearchClosedDates(rows, ts) ==
    SelectSeq(rows, LAMBDA r : r.close_start <= ts /\ ts <= r.close_end)

\* The loop over the closed dates found: each one that ends on or after the
\* running due date adds a day to both the grace period and the due date.
RECURSIVE ClosedDatesLoop(_, _, _)
ClosedDatesLoop(closed_days, st, k) ==
    IF k > Len(closed_days) THEN st
    ELSE ClosedDatesLoop(closed_days,
            IF st.due_date <= closed_days[k].close_end
            THEN [st EXCEPT !.new_grace_period = @ + DAY_OF_SECONDS,
                            !.due_date = @ + DAY_OF_SECONDS]
            ELSE st,
            k + 1)

\* One pass of the scan loop over the locals st; closed records whether the
\* day looked at was a closed one.
ScanBody(st, in) ==
    LET counted == [st EXCEPT !.counter = @ + 1] IN
    IF Weekday(counted.due_date) \in counted.close_days
    THEN [st |-> [counted EXCEPT !.new_grace_period = @ + DAY_OF_SECONDS,
                                 !.due_date = @ + DAY_OF_SECONDS],
          closed |-> TRUE]
    ELSE LET closed_days == SearchClosedDates(in.closed_dates, counted.due_date) IN
         IF Len(closed_days) > 0
         THEN [st |-> ClosedDatesLoop(closed_days, counted, 1), closed |-> TRUE]
         ELSE [st |-> [counted EXCEPT !.due_date = @ + DAY_OF_SECONDS], closed |-> FALSE]

\* The entry of extend_grace_period: the early returns, then the set-up of
\* the scan.
GraceEnter ==
    /\ g.pc = "start"
    /\ IF \/ ~GraceApplies(gin.grace_period)
          \/ ~gin.extend
          \/ ~gin.has_hours
          \/ Cardinality(CloseDays(gin.closed_hours)) = 7
       THEN g' = [g EXCEPT !.pc = "done", !.result = gin.grace_period]
       ELSE g' = [g EXCEPT
                    !.pc = "scan",
                    !.close_days = CloseDays(gin.closed_hours),
                    !.due_date = gin.due_date
                                 + (IF gin.into_closed THEN DAY_OF_SECONDS ELSE 0)
                                 + (IF gin.all THEN DAY_OF_SECONDS ELSE gin.grace_period),
                    !.new_grace_period = gin.grace_period,
                    !.counter = 0]
    /\ UNCHANGED <<storeVars, allocVars, last, gin, restVars>>

\* One iteration of the scan loop.
GraceScan ==
    /\ g.pc = "scan"
    /\ g.counter < ScanLimit
    /\ \E r \in {ScanBody(g, gin)} :
          g' = [r.st EXCEPT
                  !.pc = IF ~r.closed /\ r.st.due_date > gin.due_date + r.st.new_grace_period
                         THEN "exit" ELSE "scan"]
    /\ UNCHANGED <<storeVars, allocVars, last, gin, restVars>>

\* After the loop: the larger of the two grace periods is returned.
GraceReturn ==
    /\ g.pc = "exit" \/ (g.pc = "scan" /\ ~(g.counter < ScanLimit))
    /\ g' = [g EXCEPT !.pc = "done",
                      !.result = IF g.new_grace_period > gin.grace_period
                                 THEN g.new_grace_period ELSE gin.grace_period]
    /\ UNCHANGED <<storeVars, allocVars, last, gin, restVars>>

\* The intervals, due dates, hours of operation and closed dates of the calls.
GracePeriods ==
    {0, DAY_OF_SECONDS - 1} \cup {d * DAY_OF_SECONDS : d \in 1..MaxGraceDays}

DueDates == {d * DAY_OF_SECONDS + t : d \in 0..6, t \in {0, DAY_OF_SECONDS \div 2}}

ClosedHours == {{}} \cup {a..b : a \in 0..6, b \in 0..6}

ClosedDates ==
    UNION {{ClosedDate(a, b) : b \in a..LastClosedDay} : a \in 1..LastClosedDay}

InitGrace ==
    /\ bills = <<>>
    /\ payments = <<>>
    /\ xact_finish = "null"
    /\ circ = "none"
    /\ InitAllocLocals
    /\ last = NoCall
    /\ \E n \in 0..MaxClosedDates : \E rows \in [1..n -> ClosedDates] :
          gin \in [grace_period : GracePeriods, due_date : DueDates,
                   extend : BOOLEAN, into_closed : BOOLEAN, all : BOOLEAN,
                   has_hours : {TRUE}, closed_hours : ClosedHours,
                   closed_dates : {rows}]
                  \cup [grace_period : GracePeriods, due_date : DueDates,
                        extend : BOOLEAN, into_closed : BOOLEAN, all : BOOLEAN,
                        has_hours : {FALSE}, closed_hours : {{}},
                        closed_dates : {rows}]
    /\ g = [NoGrace EXCEPT !.pc = "start"]
    /\ IdleRest

NextGrace ==
    \/ GraceEnter
    \/ GraceScan
    \/ GraceReturn

SpecGrace == InitGrace /\ [][NextGrace]_vars

\* ------------------------------------------------------ interval_to_seconds
\* Strings are sequences of one-character strings.
Digits == <<"0", "1", "2", "3", "4", "5", "6", "7", "8", "9">>

LowerCase ==
    <<"a", "b", "c", "d", "e", "f", "g", "h", "i", "j", "k", "l", "m",
      "n", "o", "p", "q", "r", "s", "t", "u", "v", "w", "x", "y", "z">>

UpperCase ==
    <<"A", "B", "C", "D", "E", "F", "G", "H", "I", "J", "K", "L", "M",
      "N", "O", "P", "Q", "R", "S", "T", "U", "V", "W", "X", "Y", "Z">>

Range(f) == {f[i] : i \in DOMAIN f}

\* The character classes \d, \s and \w of the two regular expressions.
DigitClass == Range(Digits)
SpaceClass == {" "}
WordClass == Range(Digits) \cup Range(LowerCase) \cup Range(UpperCase) \cup {"_"}

IsDigit(c) == c \in DigitClass

DigitValue(c) == CHOOSE v \in 0..9 : Digits[v + 1] = c

\* str::to_lowercase
ToLowercase(str) ==
    [i \in 1..Len(str) |->
        IF str[i] \in Range(UpperCase)
        THEN LowerCase[CHOOSE k \in 1..Len(UpperCase) : UpperCase[k] = str[i]]
        ELSE str[i]]

StartsAt(str, i, pat) ==
    /\ i + Len(pat) - 1 <= Len(str)
    /\ \A k \in 1..Len(pat) : str[i + k - 1] = pat[k]

\* str::starts_with
StartsWith(str, pat) == StartsAt(str, 1, pat)

\* str::replace: every non-overlapping occurrence, left to right.
RECURSIVE ReplaceFrom(_, _, _, _)
ReplaceFrom(str, i, pat, to) ==
    IF i > Len(str) THEN <<>>
    ELSE IF StartsAt(str, i, pat) THEN to \o ReplaceFrom(str, i + Len(pat), pat, to)
    ELSE <<str[i]>> \o ReplaceFrom(str, i + 1, pat, to)

Replace(str, pat, to) == ReplaceFrom(str, 1, pat, to)

\* The length of the longest run of characters of a class starting at i.
RECURSIVE RunLength(_, _, _)
RunLength(str, i, class) ==
    IF i <= Len(str) /\ str[i] \in class THEN 1 + RunLength(str, i + 1, class) ELSE 0

Slice(str, from, to) == [k \in 1..(to - from + 1) |-> str[from + k - 1]]

\* INTERVAL_HMS_REGEX matched at position i: (\d{2,}):(\d{2}):(\d{2}).  The
\* hours take the whole run of digits, which a colon must follow.
HmsMatchAt(str, i) ==
    LET k == RunLength(str, i, DigitClass) IN
    /\ k >= 2
    /\ i + k + 5 <= Len(str)
    /\ str[i + k] = ":"
    /\ IsDigit(str[i + k + 1]) /\ IsDigit(str[i + k + 2])
    /\ str[i + k + 3] = ":"
    /\ IsDigit(str[i + k + 4]) /\ IsDigit(str[i + k + 5])

\* The leftmost position from i on where INTERVAL_HMS_REGEX matches, or 0.
RECURSIVE HmsFind(_, _)
HmsFind(str, i) ==
    IF i > Len(str) THEN 0
    ELSE IF HmsMatchAt(str, i) THEN i
    ELSE HmsFind(str, i + 1)

\* Regex::replace with INTERVAL_HMS_REGEX: the leftmost match, if there is
\* one, becomes "<hh> h <mm> min <ss> s"; the rest of the string is kept.
HmsReplace(str) ==
    LET i == HmsFind(str, 1)
        k == RunLength(str, i, DigitClass)
    IN IF i = 0 THEN str
       ELSE Slice(str, 1, i - 1)
            \o Slice(str, i, i + k - 1) \o <<" ", "h", " ">>
            \o Slice(str, i + k + 1, i + k + 2) \o <<" ", "m", "i", "n", " ">>
            \o Slice(str, i + k + 4, i + k + 5) \o <<" ", "s">>
            \o Slice(str, i + k + 6, Len(str))

NoPartMatch == [ok |-> FALSE, sign |-> <<>>, count |-> <<>>, itype |-> <<>>, end |-> 0]

\* INTERVAL_PART_REGEX matched at position i: \s*([\+-]?)\s*(\d+)\s*(\w+)\s*.
\* The digits take the whole run; when no word character follows the run and
\* the blanks after it, the run gives its last digit back to the word.
PartMatchAt(str, i) ==
    LET signAt == i + RunLength(str, i, SpaceClass)
        hasSign == signAt <= Len(str) /\ str[signAt] \in {"+", "-"}
        afterSign == IF hasSign THEN signAt + 1 ELSE signAt
        digitsAt == afterSign + RunLength(str, afterSign, SpaceClass)
        k == RunLength(str, digitsAt, DigitClass)
        wordAt == digitsAt + k + RunLength(str, digitsAt + k, SpaceClass)
        w == RunLength(str, wordAt, WordClass)
        sign == IF hasSign THEN <<str[signAt]>> ELSE <<>>
    IN IF k = 0 THEN NoPartMatch
       ELSE IF w > 0
       THEN [ok |-> TRUE, sign |-> sign,
             count |-> Slice(str, digitsAt, digitsAt + k - 1),
             itype |-> Slice(str, wordAt, wordAt + w - 1),
             end |-> wordAt + w + RunLength(str, wordAt + w, SpaceClass)]
       ELSE IF k >= 2
       THEN [ok |-> TRUE, sign |-> sign,
             count |-> Slice(str, digitsAt, digitsAt + k - 2),
             itype |-> <<str[digitsAt + k - 1]>>,
             end |-> digitsAt + k + RunLength(str, digitsAt + k, SpaceClass)]
       ELSE NoPartMatch

\* str::parse::<i64> of a run of digits (the runs here are far from 2^63).
RECURSIVE ParseCount(_)
ParseCount(digits) ==
    IF digits = <<>> THEN 0
    ELSE 10 * ParseCount(Slice(digits, 1, Len(digits) - 1)) + DigitValue(digits[Len(digits)])

\* The seconds one captured term stands for.
Change(count, itype) ==
    IF StartsWith(itype, <<"s">>) THEN count
    ELSE IF StartsWith(itype, <<"m", "i", "n">>) THEN count * 60
    ELSE IF StartsWith(itype, <<"h">>) THEN count * 60 * 60
    ELSE IF StartsWith(itype, <<"d">>) THEN count * 60 * 60 * 24
    ELSE IF StartsWith(itype, <<"w">>) THEN count * 60 * 60 * 24 * 7
    ELSE IF StartsWith(itype, <<"m", "o", "n">>) THEN (count * 60 * 60 * 24 * 365) \div 12
    ELSE IF StartsWith(itype, <<"y">>) THEN count * 60 * 60 * 24 * 365
    ELSE 0

\* The leftmost match of INTERVAL_PART_REGEX from position pos on.
RECURSIVE PartFind(_, _)
PartFind(str, pos) ==
    IF pos > Len(str) THEN NoPartMatch
    ELSE IF PartMatchAt(str, pos).ok THEN PartMatchAt(str, pos)
    ELSE PartFind(str, pos + 1)

\* captures_iter: the matches of INTERVAL_PART_REGEX from position pos on,
\* leftmost first and not overlapping, each added to or taken from amount.
RECURSIVE PartsLoop(_, _, _)
PartsLoop(str, pos, amount) ==
    LET m == PartFind(str, pos)
        change == Change(ParseCount(m.count), m.itype)
    IN IF ~m.ok THEN amount
       ELSE PartsLoop(str, m.end,
                      IF m.sign = <<"-">> THEN amount - change ELSE amount + change)

interval_to_seconds(str) ==
    PartsLoop(HmsReplace(Replace(Replace(ToLowercase(str), <<"a", "n", "d">>, <<",">>),
                                 <<",">>, <<" ">>)),
              1, 0)

\* Writing an interval: a term is a sign, a count and a unit word; a clock
\* token is hours, minutes and seconds of two digits each; "and" and ","
\* join terms.
RECURSIVE CountText(_)
CountText(n) ==
    IF n < 10 THEN <<Digits[n + 1]>> ELSE CountText(n \div 10) \o <<Digits[(n % 10) + 1]>>

TwoDigits(n) == <<Digits[(n \div 10) + 1], Digits[(n % 10) + 1]>>

Term(sign, count, unit) ==
    [kind |-> "term", sign |-> sign, count |-> count, unit |-> unit, hms |-> <<0, 0, 0>>]

Clock(h, m, sec) ==
    [kind |-> "hms", sign |-> <<>>, count |-> 0, unit |-> <<>>, hms |-> <<h, m, sec>>]

Joiner(word) ==
    [kind |-> "joiner", sign |-> <<>>, count |-> 0, unit |-> word, hms |-> <<0, 0, 0>>]

TokenText(t) ==
    IF t.kind = "term" THEN t.sign \o CountText(t.count) \o <<" ">> \o t.unit
    ELSE IF t.kind = "hms"
    THEN TwoDigits(t.hms[1]) \o <<":">> \o TwoDigits(t.hms[2]) \o <<":">> \o TwoDigits(t.hms[3])
    ELSE t.unit

RECURSIVE IntervalText(_)
IntervalText(tokens) ==
    IF tokens = <<>> THEN <<>>
    ELSE IF Len(tokens) = 1 THEN TokenText(tokens[1])
    ELSE TokenText(tokens[1]) \o <<" ">> \o IntervalText(Tail(tokens))

UnitWords ==
    {<<"s">>, <<"s", "e", "c", "o", "n", "d", "s">>, <<"m", "i", "n">>, <<"H">>,
     <<"d">>, <<"w">>, <<"m", "o", "n">>, <<"y">>, <<"x">>}

Signs == {<<>>, <<"-">>, <<"+">>}

Counts == {1, 2}

Tokens ==
    {Term(sign, count, unit) : sign \in Signs, count \in Counts, unit \in UnitWords}
    \cup {Clock(2, 20, 5), Clock(1, 0, 0)}
    \cup {Joiner(<<"a", "n", "d">>), Joiner(<<",">>)}

\* The call: the string is parsed and the amount returned.
IntervalToSeconds ==
    /\ iv.pc = "start"
    /\ iv' = [pc |-> "done", amount |-> interval_to_seconds(IntervalText(interval))]
    /\ UNCHANGED <<storeVars, allocVars, last, graceVars, fineVars, reqs, pol, interval>>

InitDate ==
    /\ bills = <<>>
    /\ payments = <<>>
    /\ xact_finish = "null"
    /\ circ = "none"
    /\ InitAllocLocals
    /\ last = NoCall
    /\ gin = NoGraceInput
    /\ g = NoGrace
    /\ \E n \in 0..MaxTerms : interval \in [1..n -> Tokens]
    /\ iv = [NoInterval EXCEPT !.pc = "start"]
    /\ IdleFines
    /\ reqs = NoRequests
    /\ pol = NoPolicy

NextDate == IntervalToSeconds

SpecDate == InitDate /\ [][NextDate]_vars

\* -------------------------------------------------- generate_fines_for_xact
\* extend_grace_period as one call: the scan loop run to its exit.
RECURSIVE GraceScanLoop(_, _)
GraceScanLoop(st, in) ==
    IF ~(st.counter < ScanLimit) THEN st
    ELSE LET r == ScanBody(st, in) IN
         IF ~r.closed /\ r.st.due_date > in.due_date + r.st.new_grace_period
         THEN r.st
         ELSE GraceScanLoop(r.st, in)

extend_grace_period(in) ==
    IF \/ ~GraceApplies(in.grace_period)
       \/ ~in.extend
       \/ ~in.has_hours
       \/ Cardinality(CloseDays(in.closed_hours)) = 7
    THEN in.grace_period
    ELSE LET st == GraceScanLoop(
                     [NoGrace EXCEPT
                        !.close_days = CloseDays(in.closed_hours),
                        !.due_date = in.due_date
                                     + (IF in.into_closed THEN DAY_OF_SECONDS ELSE 0)
                                     + (IF in.all THEN DAY_OF_SECONDS ELSE in.grace_period),
                        !.new_grace_period = in.grace_period],
                     in)
         IN IF st.new_grace_period > in.grace_period
            THEN st.new_grace_period ELSE in.grace_period

\* An overdue billing on file with its adjustments fleshed; money in cents.
Fine(billing_ts, amount, voided, adjustments) ==
    [billing_ts |-> billing_ts, amount |-> amount, voided |-> voided,
     adjustments |-> adjustments]

\* The non-voided fines less the non-voided adjustments on the fines.
CurrentFineTotal(fines) ==
    SumSeq([i \in 1..Len(fines) |->
              (IF fines[i].voided THEN 0 ELSE fines[i].amount)
              - SumSeq([k \in 1..Len(fines[i].adjustments) |->
                          IF fines[i].adjustments[k].voided THEN 0
                          ELSE fines[i].adjustments[k].amount])])

\* (a as f64 / b as f64).ceil() as i64, for b # 0.
CeilDiv(a, b) == IF b > 0 THEN -((-a) \div b) ELSE -(a \div (-b))

\* Entry: the intervals are parsed, the fines on file are totalled, and the
\* time of the last fine after the due date is found; without one the grace
\* period is extended and the due date stands in.
FinesEnter ==
    /\ fl.pc = "start"
    /\ \E fine_interval \in {interval_to_seconds(IntervalText(fin.fine_interval))} :
       \E grace_period \in {interval_to_seconds(IF fin.grace_period = <<>>
                                                 THEN <<"0", "s">>
                                                 ELSE IntervalText(fin.grace_period))} :
       \E fines \in {SelectSeq(fin.fines, LAMBDA r : r.billing_ts > fin.due_date)} :
          IF fine_interval = 0 \/ fin.recurring_fine = 0 \/ fin.max_fine = 0
          THEN fl' = [fl EXCEPT !.pc = "returned", !.exit = "skipped",
                                !.fine_interval = fine_interval,
                                !.grace_period = grace_period]
          ELSE fl' = [fl EXCEPT
                        !.pc = "loaded",
                        !.fine_interval = fine_interval,
                        !.current_fine_total = CurrentFineTotal(fin.fines),
                        !.grace_period =
                            IF fines # <<>> THEN grace_period
                            ELSE extend_grace_period(
                                   [gin EXCEPT !.grace_period = grace_period,
                                               !.due_date = fin.due_date]),
                        !.last_fine_dt =
                            IF fines # <<>> THEN fines[1].billing_ts ELSE fin.due_date]
    /\ UNCHANGED <<storeVars, allocVars, last, graceVars, dateVars, reqs, pol, fin>>

\* The exits before generation, then the count of pending fines.
FinesChecks ==
    /\ fl.pc = "loaded"
    /\ IF fl.last_fine_dt > fin.now
       THEN fl' = [fl EXCEPT !.pc = "returned", !.exit = "future"]
       ELSE IF /\ fl.last_fine_dt = fin.due_date
               /\ fl.grace_period > 0
               /\ fin.now < fin.due_date - fl.grace_period
       THEN fl' = [fl EXCEPT !.pc = "returned", !.exit = "within_grace"]
       ELSE \E pending_fine_count \in {CeilDiv(fin.now - fl.last_fine_dt, fl.fine_interval)} :
               fl' = [fl EXCEPT
                        !.pending_fine_count = pending_fine_count,
                        !.pc = IF pending_fine_count = 0 THEN "returned" ELSE "settings",
                        !.exit = IF pending_fine_count = 0 THEN "no_pending" ELSE "none"]
    /\ UNCHANGED <<storeVars, allocVars, last, graceVars, dateVars, reqs, pol, fin>>

\* The settings are read and the call returns.
FinesFinish ==
    /\ fl.pc = "settings"
    /\ fl' = [fl EXCEPT !.pc = "returned", !.exit = "end"]
    /\ UNCHANGED <<storeVars, allocVars, last, graceVars, dateVars, reqs, pol, fin>>

FineIntervals == {<<Term(<<>>, count, <<"d">>)>> : count \in 0..1}

GraceIntervals == {<<>>} \cup {<<Term(<<>>, count, <<"d">>)>> : count \in 1..MaxGraceDays}

FinesOnFile(due_date) ==
    {<<>>}
    \cup {<<Fine(ts, amount, voided, <<>>)>> :
            ts \in {due_date - DAY_OF_SECONDS, due_date + DAY_OF_SECONDS},
            amount \in 1..MaxAmt, voided \in BOOLEAN}
    \cup {<<Fine(ts, amount, FALSE, <<[amount |-> 1, voided |-> FALSE]>>)>> :
            ts \in {due_date - DAY_OF_SECONDS, due_date + DAY_OF_SECONDS},
            amount \in 1..MaxAmt}

InitFines ==
    /\ bills = <<>>
    /\ payments = <<>>
    /\ xact_finish = "null"
    /\ circ = "open"
    /\ InitAllocLocals
    /\ last = NoCall
    /\ gin \in [grace_period : {0}, due_date : {0}, extend : BOOLEAN,
                into_closed : {FALSE}, all : {FALSE}, has_hours : {TRUE},
                closed_hours : {{1}}, closed_dates : {<<>>}]
    /\ g = NoGrace
    /\ IdleDate
    /\ fin \in [due_date : {0},
                now : {h * (DAY_OF_SECONDS \div 2) : h \in (0 - MaxNow)..MaxNow},
                recurring_fine : 0..MaxAmt,
                max_fine : {0, MaxAmt, MaxAmt + 1},
                fine_interval : FineIntervals,
                grace_period : GraceIntervals,
                fines : FinesOnFile(0),
                charge_when_closed : {TRUE},
                truncate_to_max_fine : BOOLEAN]
    /\ fl = [NoFines EXCEPT !.pc = "start"]
    /\ reqs = NoRequests
    /\ pol = NoPolicy

NextFines ==
    \/ FinesEnter
    \/ FinesChecks
    \/ FinesFinish

SpecFines == InitFines /\ [][NextFines]_vars

\* ------------------------------------------------ requests side by side
\* Two requests on the one transaction, each with an editor of its own.  Each
\* search, create and update reaches the store as the request gets to it; the
\* functions take no lock on the transaction and begin no store transaction.
Requests == {1, 2}

Request(op, ids) ==
    [op |-> op, ids |-> ids, pc |-> "start", maps |-> <<>>, xact_total |-> 0,
     loaded |-> <<>>, todo |-> <<>>, created_for |-> {}]

\* adjust_bills_to_zero up to its loop: the billings, the transaction and the
\* maps are read.
ConcAdjustRead(p) ==
    /\ reqs[p].op = "adjust_bills_to_zero"
    /\ reqs[p].pc = "start"
    /\ \E found \in {SearchBillsById(bills, reqs[p].ids)} :
       \E alloc \in {BillPaymentMapForXact(bills, payments)} :
          reqs' = [reqs EXCEPT
                     ![p] = IF Len(found) = 0 \/ (alloc.returns /\ alloc.maps = <<>>)
                            THEN [@ EXCEPT !.pc = "done"]
                            ELSE IF ~alloc.returns THEN [@ EXCEPT !.pc = "diverged"]
                            ELSE [@ EXCEPT
                                    !.pc = "adjusting",
                                    !.loaded = bills,
                                    !.maps = alloc.maps,
                                    !.xact_total =
                                        SumSeq([i \in 1..Len(alloc.maps) |->
                                                   alloc.maps[i].bill.amount]),
                                    !.todo = found]]
    /\ UNCHANGED <<storeVars, allocVars, last, graceVars, dateVars, fineVars, pol>>

\* One iteration of its loop: the adjustment of one billing is created.
ConcAdjustWrite(p) ==
    /\ reqs[p].op = "adjust_bills_to_zero"
    /\ reqs[p].pc = "adjusting"
    /\ reqs[p].todo # <<>>
    /\ \E st \in {AdjustOne([maps |-> reqs[p].maps, payments |-> payments,
                             created_for |-> reqs[p].created_for, zeroed |-> {}],
                            Head(reqs[p].todo), reqs[p].xact_total)} :
          /\ payments' = st.payments
          /\ reqs' = [reqs EXCEPT ![p] = [@ EXCEPT !.maps = st.maps,
                                                   !.created_for = st.created_for,
                                                   !.todo = Tail(@)]]
    /\ UNCHANGED <<bills, xact_finish, circ, allocVars, last, graceVars, dateVars, fineVars, pol>>

\* After its loop: check_open_xact and the penalties.
ConcAdjustCheck(p) ==
    /\ reqs[p].op = "adjust_bills_to_zero"
    /\ reqs[p].pc = "adjusting"
    /\ reqs[p].todo = <<>>
    /\ xact_finish' = CheckOpenXactOn(xact_finish, bills, payments, circ).xact_finish
    /\ reqs' = [reqs EXCEPT ![p] = [@ EXCEPT !.pc = "done"]]
    /\ UNCHANGED <<bills, payments, circ, allocVars, last, graceVars, dateVars, fineVars, pol>>

\* void_bills up to its loop: the billings are read.
ConcVoidRead(p) ==
    /\ reqs[p].op = "void_bills"
    /\ reqs[p].pc = "start"
    /\ \E found \in {SearchBillsById(bills, reqs[p].ids)} :
          reqs' = [reqs EXCEPT
                     ![p] = IF ~VoidBillsFound(found) THEN [@ EXCEPT !.pc = "done"]
                            ELSE [@ EXCEPT !.pc = "voiding", !.loaded = bills,
                                           !.todo = found]]
    /\ UNCHANGED <<storeVars, allocVars, last, graceVars, dateVars, fineVars, pol>>

\* One iteration of its loop: the row as it was read is voided and written
\* back, and check_open_xact runs.
ConcVoidWrite(p) ==
    /\ reqs[p].op = "void_bills"
    /\ reqs[p].pc = "voiding"
    /\ reqs[p].todo # <<>>
    /\ \E bi \in {Head(reqs[p].todo)} :
       \E st \in {VoidOne([bills |-> [bills EXCEPT ![bi] = reqs[p].loaded[bi]],
                           xact_finish |-> xact_finish, bill_updates |-> {},
                           xact_updates |-> 0, checked_for |-> {}, skipped |-> {},
                           penalty_users |-> {}],
                          bi, <<>>, p, payments, circ)} :
          /\ bills' = IF st.skipped = {} THEN st.bills ELSE bills
          /\ xact_finish' = st.xact_finish
          /\ reqs' = [reqs EXCEPT ![p] = [@ EXCEPT !.todo = Tail(@)]]
    /\ UNCHANGED <<payments, circ, allocVars, last, graceVars, dateVars, fineVars, pol>>

\* After its loop: the penalties.
ConcVoidDone(p) ==
    /\ reqs[p].op = "void_bills"
    /\ reqs[p].pc = "voiding"
    /\ reqs[p].todo = <<>>
    /\ reqs' = [reqs EXCEPT ![p] = [@ EXCEPT !.pc = "done"]]
    /\ UNCHANGED <<storeVars, allocVars, last, graceVars, dateVars, fineVars, pol>>

InitConc ==
    /\ \E n \in 1..LedgerBills : \E amts \in [1..n -> 1..MaxAmt] :
          bills = [i \in 1..n |-> Billing(i, amts[i])]
    /\ payments \in {<<>>} \cup {<<Payment(1, a, 0)>> : a \in 1..MaxAmt}
    /\ xact_finish \in {"null", "now"}
    /\ circ \in {"none", "open", "stopped"}
    /\ InitAllocLocals
    /\ last = NoCall
    /\ gin = NoGraceInput
    /\ g = NoGrace
    /\ IdleDate
    /\ IdleFines
    /\ pol = NoPolicy
    /\ \E ids1 \in SUBSET (1..Len(bills)) : \E ids2 \in SUBSET (1..Len(bills)) :
       \E op2 \in {"adjust_bills_to_zero", "void_bills"} :
          reqs = <<Request("adjust_bills_to_zero", ids1), Request(op2, ids2)>>

NextConc ==
    \E p \in Requests :
        \/ ConcAdjustRead(p)
        \/ ConcAdjustWrite(p)
        \/ ConcAdjustCheck(p)
        \/ ConcVoidRead(p)
        \/ ConcVoidWrite(p)
        \/ ConcVoidDone(p)

SpecConc == InitConc /\ [][NextConc]_vars

\* ------------------------------------------- void_or_zero_bills_of_type
\* A billing with its type, and a payment with the time it was made.
TypedBilling(i, amt, btype) == Billing(i, amt) @@ [btype |-> btype]

TimedPayment(i, amt, payment_ts) == Payment(i, amt, 0) @@ [payment_ts |-> payment_ts]

\* editor.search("mb", {"xact": xact_id, "btype": btype_id}): the ids found.
BillsOfType(bs, btype_id) == {bs[i].id : i \in {k \in 1..Len(bs) : bs[k].btype = btype_id}}

\* Mutant of XactHasPaymentWithin: a payment made before the window counts.
XactHasPaymentWithinEver(ps, intvl, now) ==
    {i \in 1..Len(ps) : ps[i].payment_type # "account_adjustment"} # {}

\* xact_has_payment_within: whether the latest payment that is not an account
\* adjustment was made after now - interval.  Rows created without a time are
\* adjustments.
XactHasPaymentWithin(ps, intvl, now) ==
    LET found == {i \in 1..Len(ps) : ps[i].payment_type # "account_adjustment"} IN
    IF found = {} THEN FALSE
    ELSE LET last_payment == CHOOSE i \in found :
                                \A k \in found : ps[k].payment_ts <= ps[i].payment_ts
             window_start == now - interval_to_seconds(IntervalText(intvl))
         IN ps[last_payment].payment_ts > window_start

\* Lines 181-185: either setting prohibits a negative balance.
ProhibitNegBalance(p) ==
    p.prohibit_negative_balance_on_lost \/ p.prohibit_negative_balance_default

\* Lines 187-193: the interval on lost, else the default one (<<>>: null).
NegBalanceInterval(p) ==
    IF p.negative_balance_interval_on_lost # <<>>
    THEN p.negative_balance_interval_on_lost
    ELSE p.negative_balance_interval_default

\* Lines 195-198.
HasRefundable(p, ps) ==
    IF NegBalanceInterval(p) # <<>>
    THEN XactHasPaymentWithin(ps, NegBalanceInterval(p), p.now)
    ELSE FALSE

\* void_or_zero_bills_of_type(editor, xact_id, context_org, btype_id, for_note).
VoidOrZeroBillsOfType ==
    \E bill_ids \in {BillsOfType(bills, pol.btype_id)} :
       IF bill_ids = {}
       THEN /\ last' = Called("void_or_zero_bills_of_type", "ok", 0, 1)
            /\ UNCHANGED <<storeVars, allocVars, graceVars, restVars>>
       ELSE IF ProhibitNegBalance(pol) /\ ~HasRefundable(pol, payments)
       THEN AdjustBillsToZero(bill_ids, 1)
       ELSE VoidBills(bill_ids, <<"System: VOIDED">>, 1)

NegBalanceIntervals == {<<>>, <<Term(<<>>, 1, <<"d">>)>>}

InitPolicy ==
    /\ \E n \in 0..LedgerBills :
       \E amts \in [1..n -> 1..MaxAmt] : \E types \in [1..n -> {1, 2}] :
          bills = [i \in 1..n |-> TypedBilling(i, amts[i], types[i])]
    /\ payments \in {<<>>}
                    \cup {<<TimedPayment(1, a, ts)>> :
                            a \in 1..MaxAmt,
                            ts \in {0 - 2 * DAY_OF_SECONDS, 0 - (DAY_OF_SECONDS \div 2)}}
    /\ xact_finish \in {"null", "now"}
    /\ circ \in {"none", "open"}
    /\ InitAllocLocals
    /\ last = NoCall
    /\ gin = NoGraceInput
    /\ g = NoGrace
    /\ IdleDate
    /\ IdleFines
    /\ reqs = NoRequests
    /\ pol \in [btype_id : {1, 2}, now : {0},
                prohibit_negative_balance_on_lost : BOOLEAN,
                prohibit_negative_balance_default : BOOLEAN,
                negative_balance_interval_on_lost : NegBalanceIntervals,
                negative_balance_interval_default : NegBalanceIntervals]

NextPolicy == VoidOrZeroBillsOfType

SpecPolicy == InitPolicy /\ [][NextPolicy]_vars

\* ------------------------------------------------------------ claims
MapsRemaining == SumSeq([i \in 1..Len(maps) |-> maps[i].bill.amount])
MapsOriginal == SumSeq([i \in 1..Len(maps) |-> maps[i].bill_amount])
AmountsOf(s) == SumSeq([i \in 1..Len(s) |-> s[i].amount])
MapsConsumed ==
    SumSeq([i \in 1..Len(maps) |-> AmountsOf(maps[i].payments) + AmountsOf(maps[i].adjustments)])

\* C1: whenever bill_payment_map_for_xact returns, the remaining amounts of the
\* bills in the maps plus the amounts of the payments and adjustments recorded
\* in the maps add up to the original bill amounts.
C1_Conservation ==
    apc = "returned" => MapsRemaining + MapsConsumed = MapsOriginal

\* The allocation returned after the exact-match pass consumed a payment.
C1_Witness ==
    /\ apc = "returned"
    /\ \E i \in 1..Len(maps) : maps[i].payments # <<>> /\ maps[i].bill_amount > 0
    /\ MapsRemaining > 0

\* The adjustment-type payments of the store that target billing b.
AdjustmentsFor(b) ==
    {i \in 1..Len(payments) :
        /\ ~payments[i].voided
        /\ payments[i].payment_type = "account_adjustment"
        /\ payments[i].account_adjustment.billing = b}

\* The working copy of the payment with id pid.
Working(pid) == CHOOSE i \in 1..Len(wpayments) : wpayments[i].id = pid

\* C2: once the adjustment pass has run, a bill targeted by a single account
\* adjustment larger than the bill has in its map one adjustment of exactly the
\* bill's amount, its remaining amount is 0, the adjustment's own amount is the
\* unconsumed difference, and no bill amount is negative.
C2_AdjustmentSplit ==
    apc = "exact" =>
        /\ \A i \in 1..Len(maps) : maps[i].bill.amount >= 0
        /\ \A i \in 1..Len(maps) : \A a \in AdjustmentsFor(maps[i].bill.id) :
              (AdjustmentsFor(maps[i].bill.id) = {a}
                    /\ payments[a].amount > maps[i].bill_amount) =>
                 /\ Len(maps[i].adjustments) = 1
                 /\ maps[i].adjustments[1].id = payments[a].id
                 /\ maps[i].adjustments[1].amount = maps[i].bill_amount
                 /\ maps[i].adjustment_amount = maps[i].bill_amount
                 /\ maps[i].bill.amount = 0
                 /\ wpayments[Working(payments[a].id)].account_adjustment.amount
                        = payments[a].amount - maps[i].bill_amount

PairwiseMatching ==
    /\ Len(payments) = Len(bills)
    /\ Len(bills) > 0
    /\ \A i \in 1..Len(payments) :
          ~payments[i].voided /\ payments[i].payment_type # "account_adjustment"
    /\ \A i \in 1..Len(bills) : ~bills[i].voided
    /\ \A a \in 0..(MaxAmt + 1) :
          Cardinality({i \in 1..Len(bills) : bills[i].amount = a})
            = Cardinality({i \in 1..Len(payments) : payments[i].amount = a})

\* C5: when bills and ordinary payments pair off by amount, the returned maps
\* hold exactly one payment each, of the bill's amount, no payment twice, and
\* every bill's remaining amount is 0.
C5_ExactMatch ==
    (apc = "returned" /\ PairwiseMatching) =>
        /\ \A i \in 1..Len(maps) :
              /\ Len(maps[i].payments) = 1
              /\ maps[i].payments[1].amount = maps[i].bill_amount
              /\ maps[i].bill.amount = 0
        /\ \A i, j \in 1..Len(maps) :
              i # j => maps[i].payments[1].id # maps[j].payments[1].id

\* Two bills of different amounts, paid by two payments arriving in the other
\* order of amounts.
C5_Witness ==
    /\ apc = "returned"
    /\ PairwiseMatching
    /\ Len(bills) = 2
    /\ bills[1].amount > bills[2].amount
    /\ payments[1].amount < payments[2].amount

\* C3: a call of adjust_bills_to_zero that directly follows a call of
\* adjust_bills_to_zero creates no account adjustment for a bill the earlier
\* call adjusted to zero.
C3_NoDoubleAdjustment ==
    [][(last.op = "adjust_bills_to_zero" /\ last'.op = "adjust_bills_to_zero")
          => last'.created_for \cap last.zeroed = {}]_vars

\* C6: check_open_xact sets xact_finish exactly when nothing is owed, the
\* transaction is open and there is no open circulation, clears it exactly when
\* something is owed and the transaction is closed, and otherwise leaves the rows
\* alone and writes nothing.
C6_DecisionRule ==
    [][CheckOpenXact =>
          LET zero_owed == BalanceOwed(bills, payments) = 0
              open == xact_finish = "null"
              no_open_circ == circ \in {"none", "stopped"}
          IN /\ UNCHANGED <<bills, payments, circ>>
             /\ IF zero_owed /\ open /\ no_open_circ
                THEN xact_finish' = "now" /\ last'.xact_updates = 1
                ELSE IF ~zero_owed /\ ~open
                THEN xact_finish' = "null" /\ last'.xact_updates = 1
                ELSE xact_finish' = xact_finish /\ last'.xact_updates = 0]_vars

\* check_open_xact has closed a billed transaction whose circulation is complete.
C6_Witness ==
    /\ last.op = "check_open_xact"
    /\ last.xact_updates = 1
    /\ xact_finish = "now"
    /\ circ = "stopped"
    /\ Len(bills) > 0

\* C7: a check_open_xact call made directly after a check_open_xact call
\* updates nothing.
C7_Idempotent ==
    [][(last.op = "check_open_xact" /\ CheckOpenXact)
          => (xact_finish' = xact_finish /\ last'.xact_updates = 0)]_vars

\* A second check_open_xact has run right after one that updated the transaction.
C7_Witness ==
    /\ last.op = "check_open_xact"
    /\ last.prev_check = 1
    /\ last.xact_updates = 0

\* The rows of the store that were voided before the step and are written by it.
NewlyVoided == {i \in 1..Len(bills) : ~bills[i].voided /\ bills'[i].voided}

\* C8: a void_bills call leaves every bill that is already voided as it is,
\* updates and runs check_open_xact for the bills it newly voids only, and,
\* when the editor has a requestor and a requested bill exists, returns success.
C8_VoidIdempotent ==
    [][last'.op = "void_bills" =>
          /\ \A i \in 1..Len(bills) :
                bills[i].voided =>
                   /\ bills'[i] = bills[i]
                   /\ bills[i].id \notin (last'.bill_updates \cup last'.checked_for)
          /\ last'.bill_updates = {bills[i].id : i \in NewlyVoided}
          /\ last'.checked_for = {bills[i].id : i \in NewlyVoided}
          /\ (last'.requestor # 0 /\ last'.found > 0) => last'.result = "ok"
          /\ (last'.result = "ok" /\ NewlyVoided = {}) =>
                (xact_finish' = xact_finish /\ last'.xact_updates = 0 /\ last'.penalties = 0)]_vars

\* void_bills returned success for a request naming an already voided bill only.
C8_Witness ==
    /\ last.op = "void_bills"
    /\ last.result = "ok"
    /\ last.skipped # {}
    /\ last.bill_updates = {}

\* C9: void_bills fails when no requested id matches a stored bill, and then
\* changes no bill, no transaction and no penalty.
C9_VoidNotFound ==
    [][(last'.op = "void_bills" /\ last'.found = 0) =>
          /\ last'.result = "err"
          /\ UNCHANGED storeVars
          /\ last'.bill_updates = {}
          /\ last'.xact_updates = 0
          /\ last'.penalties = 0]_vars

\* void_bills failed for a requestor whose ids match none of the stored bills.
C9_Witness ==
    /\ last.op = "void_bills"
    /\ last.found = 0
    /\ last.requestor # 0
    /\ last.result = "err"
    /\ Len(bills) > 0

\* C10: extend_grace_period never returns less than the grace period it was
\* given, and returns exactly that grace period when circ.grace.extend is
\* false or unset, or when the grace period is shorter than a day.
C10_GraceNeverSmaller ==
    g.pc = "done" =>
        /\ g.result >= gin.grace_period
        /\ (~gin.extend \/ gin.grace_period < DAY_OF_SECONDS) => g.result = gin.grace_period

\* A call with the setting on and a grace period of a day or more scanned
\* over a closed day and returned a longer grace period.
C10_Witness ==
    /\ g.pc = "done"
    /\ gin.extend /\ gin.grace_period >= DAY_OF_SECONDS
    /\ g.counter > 1
    /\ g.result > gin.grace_period

\* The multiplier of a unit word, by its prefix.
Multiplier(unit) ==
    LET u == ToLowercase(unit) IN
    IF StartsWith(u, <<"s">>) THEN 1
    ELSE IF StartsWith(u, <<"m", "i", "n">>) THEN 60
    ELSE IF StartsWith(u, <<"h">>) THEN 3600
    ELSE IF StartsWith(u, <<"d">>) THEN 86400
    ELSE IF StartsWith(u, <<"w">>) THEN 604800
    ELSE IF StartsWith(u, <<"m", "o", "n">>) THEN (365 * 86400) \div 12
    ELSE IF StartsWith(u, <<"y">>) THEN 365 * 86400
    ELSE 0

\* What one token of the interval stands for, in seconds.
TokenSeconds(t) ==
    IF t.kind = "term"
    THEN (IF t.sign = <<"-">> THEN -1 ELSE 1) * t.count * Multiplier(t.unit)
    ELSE IF t.kind = "hms" THEN t.hms[1] * 3600 + t.hms[2] * 60 + t.hms[3]
    ELSE 0

TermsSum == SumSeq([i \in 1..Len(interval) |-> TokenSeconds(interval[i])])

\* C11: interval_to_seconds returns the sum over the terms of the input of
\* sign * count * multiplier(unit), an HH:MM:SS token counting as HH h MM min
\* SS s and a term with a leading '-' being subtracted.
C11_IntervalSum ==
    iv.pc = "done" => iv.amount = TermsSum

\* The billings the generation loop is to create for n pending periods.
RECURSIVE PendingFines(_, _, _, _, _)
PendingFines(n, total, recurring_fine, max_fine, truncate) ==
    IF n = 0 THEN <<>>
    ELSE IF total + recurring_fine > max_fine
    THEN (IF truncate /\ max_fine > total THEN <<max_fine - total>> ELSE <<>>)
    ELSE <<recurring_fine>>
         \o PendingFines(n - 1, total + recurring_fine, recurring_fine, max_fine, truncate)

\* C12: when generate_fines_for_xact has computed a pending fine count of 1 or
\* more, it has on return created overdue billings of the recurring fine for
\* the pending periods in order, up to the maximum fine (the last one
\* truncated to reach it exactly when truncation is on), and has called
\* check_open_xact for the transaction.
C12_FineGeneration ==
    (fl.pc = "returned" /\ fl.pending_fine_count >= 1) =>
        /\ [i \in 1..Len(bills) |-> bills[i].amount]
             = PendingFines(fl.pending_fine_count, fl.current_fine_total,
                            fin.recurring_fine, fin.max_fine, fin.truncate_to_max_fine)
        /\ last.op = "check_open_xact"

\* No fine billed after the due date is on file.
NoFineAfterDue == \A i \in 1..Len(fin.fines) : ~(fin.fines[i].billing_ts > fin.due_date)

\* C19: when no fine billed after the due date exists, the (extended) grace
\* period is positive and now lies between due_date - grace_period and
\* due_date, generate_fines_for_xact stops at the still-within-grace check:
\* it computes no pending fine count and does not take the future-baseline
\* exit.
C19_StillInsideGrace ==
    (/\ fl.pc = "returned"
     /\ fl.exit # "skipped"
     /\ NoFineAfterDue
     /\ fl.grace_period > 0
     /\ fin.due_date - fl.grace_period <= fin.now
     /\ fin.now <= fin.due_date)
        => fl.exit = "within_grace"

\* Request q has read the rows and has a write still to make.
ReadAndStillWriting(q) ==
    \/ /\ reqs[q].pc = "adjusting"
       /\ \E k \in 1..Len(reqs[q].todo) :
             LET mi == MapOfBill(reqs[q].maps, reqs[q].loaded[reqs[q].todo[k]])
             IN mi # 0 /\ ~AlreadyAdjusted(reqs[q].maps[mi])
    \/ /\ reqs[q].pc = "voiding"
       /\ \E k \in 1..Len(reqs[q].todo) : ~reqs[q].loaded[reqs[q].todo[k]].voided

\* Request p writes to the billings or the payments in this step.
WritesRows(p) == reqs'[p] # reqs[p] /\ (bills' # bills \/ payments' # payments)

\* C13: no write of one request to the transaction's bills, payments or
\* adjustments occurs between the other request's read of them and its last
\* write, so two adjust_bills_to_zero calls running side by side never both
\* create an adjustment for the same bill.
C13_AtomicPerXact ==
    /\ [][\A p \in Requests : \A q \in Requests \ {p} :
             ~(WritesRows(p) /\ ReadAndStillWriting(q))]_vars
    /\ [](reqs # NoRequests => reqs[1].created_for \cap reqs[2].created_for = {})

\* C14: whenever, after the adjustment and exact-match passes, a bill still
\* has a positive remaining amount and a payment is still unused (the
\* residual pass enters its loop), bill_payment_map_for_xact terminates.
C14_ResidualTerminates == (apc = "loop") ~> (apc = "returned")

\* The latest call returned successfully after voiding a bill or creating an
\* Account Adjustment.
WroteAndReturned ==
    /\ last.op \in {"void_bills", "adjust_bills_to_zero"}
    /\ last.result = "ok"
    /\ last.bill_updates # {} \/ last.created_for # {}

\* C15: when a void_bills or adjust_bills_to_zero call that voided a bill or
\* created an Account Adjustment returns successfully, check_open_xact has run
\* after its last write: every voided bill was followed by the check, and the
\* transaction does not have a non-null xact_finish together with a non-zero
\* balance owed.
C15_CheckAfterMutation ==
    WroteAndReturned =>
        /\ last.bill_updates \subseteq last.checked_for
        /\ ~(xact_finish # "null" /\ BalanceOwed(bills, payments) # 0)

\* A call voided a bill of a finished transaction, which left a balance, and
\* its check reopened the transaction.
C15_Witness ==
    /\ WroteAndReturned
    /\ last.op = "void_bills"
    /\ last.xact_updates > 0
    /\ xact_finish = "null"
    /\ BalanceOwed(bills, payments) # 0

\* The call ran with the setting on and a grace period of a day or more, for
\* an org whose hours of operation were on hand.
GraceExtensionOn ==
    /\ g.pc = "done"
    /\ gin.extend
    /\ gin.grace_period >= DAY_OF_SECONDS
    /\ gin.has_hours

\* C16: extend_grace_period returns the grace period unchanged when the hours
\* of operation mark all seven weekdays (0-6) as fully closed, even with
\* circ.grace.extend true and a grace period of a day or more.
C16_NeverOpenUnchanged ==
    (GraceExtensionOn /\ gin.closed_hours = 0..6) => g.result = gin.grace_period

\* The instant lies inside one of the closed-date ranges on file.
InClosedDate(ts) ==
    \E k \in 1..Len(gin.closed_dates) :
        gin.closed_dates[k].close_start <= ts /\ ts <= gin.closed_dates[k].close_end

\* C17: with circ.grace.extend true, a grace period of a day or more and an
\* org open on at least one weekday, the instant due_date + the returned
\* grace period falls neither on a fully closed weekday nor inside a
\* closed-date range.
C17_EndsOnOpenDay ==
    (GraceExtensionOn /\ gin.closed_hours # 0..6) =>
        /\ Weekday(gin.due_date + g.result) \notin gin.closed_hours
        /\ ~InClosedDate(gin.due_date + g.result)

\* A payment that is not an account adjustment was made within the
\* negative-balance interval in force (the one on lost, else the default).
PaymentWithinInterval ==
    /\ NegBalanceInterval(pol) # <<>>
    /\ \E i \in 1..Len(payments) :
          /\ payments[i].payment_type # "account_adjustment"
          /\ payments[i].payment_ts > pol.now - TokenSeconds(NegBalanceInterval(pol)[1])

\* C18: when the transaction has bills of the given type,
\* void_or_zero_bills_of_type calls adjust_bills_to_zero on them if a
\* prohibit-negative-balance setting is true and the transaction has no payment
\* within the negative-balance interval, and void_bills on them otherwise; with
\* no bill of that type it changes nothing.
C18_PolicyChoice ==
    [][VoidOrZeroBillsOfType =>
          IF BillsOfType(bills, pol.btype_id) = {}
          THEN storeVars' = storeVars /\ last'.op = "void_or_zero_bills_of_type"
          ELSE /\ last'.found = Cardinality(BillsOfType(bills, pol.btype_id))
               /\ IF /\ \/ pol.prohibit_negative_balance_on_lost
                        \/ pol.prohibit_negative_balance_default
                     /\ ~PaymentWithinInterval
                  THEN last'.op = "adjust_bills_to_zero"
                  ELSE last'.op = "void_bills"]_vars

\* A call with a prohibit setting on and an interval set voided the bills
\* of the type because a payment was made inside the interval.
C18_Witness ==
    /\ last.op = "void_bills"
    /\ last.bill_updates # {}
    /\ ProhibitNegBalance(pol)
    /\ PaymentWithinInterval

\* The billings the search for non-voided rows of the transaction is to return.
OpenBillIds == {i \in DOMAIN bills : ~bills[i].voided}

\* C20: when the transaction has no non-voided payments, the call returns
\* after its load step with one map per non-voided billing, in ascending
\* billing_ts order, each with empty adjustments and payments, an
\* adjustment_amount of 0 and a remaining bill_amount equal to the billing's
\* amount; with no non-voided billing the list is empty.
C20_NoPaymentsUnchanged ==
    (apc # "start" /\ \A i \in DOMAIN payments : payments[i].voided) =>
        /\ apc = "returned"
        /\ Len(maps) = Cardinality(OpenBillIds)
        /\ {maps[i].bill.id : i \in DOMAIN maps} = OpenBillIds
        /\ \A i, j \in DOMAIN maps : i < j => maps[i].bill.id < maps[j].bill.id
        /\ \A i \in DOMAIN maps :
              /\ maps[i].bill = bills[maps[i].bill.id]
              /\ maps[i].adjustments = <<>>
              /\ maps[i].payments = <<>>
              /\ maps[i].adjustment_amount = 0
              /\ maps[i].bill_amount = bills[maps[i].bill.id].amount

\* C20 witness: the call returned on a transaction whose only payment is voided
\* and which has a voided billing next to a non-voided one.
C20_Witness ==
    /\ apc = "returned"
    /\ payments # <<>>
    /\ \A i \in DOMAIN payments : payments[i].voided
    /\ maps # <<>>
    /\ \E i \in DOMAIN bills : bills[i].voided

\* Lines 237-244: xact_total, the sum of the remaining bill amounts in the maps
\* of the allocator on the rows bs, ps.
XactTotal(bs, ps) ==
    LET ms == BillPaymentMapForXact(bs, ps).maps
    IN SumSeq([i \in 1..Len(ms) |-> ms[i].bill.amount])

\* The sum of the amounts of the payment rows of ps2 that ps1 does not have.
CreatedTotal(ps1, ps2) ==
    SumSeq([i \in 1..(Len(ps2) - Len(ps1)) |-> ps2[Len(ps1) + i].amount])

\* C21: in one adjust_bills_to_zero call, the sum of the amounts of the account
\* adjustments the call creates never exceeds xact_total, the sum of the
\* remaining bill amounts in the allocator maps computed at the start of the call.
C21_AdjustmentTotalBounded ==
    [][(last'.op = "adjust_bills_to_zero" /\ last'.result = "ok") =>
          /\ Len(payments') >= Len(payments)
          /\ SubSeq(payments', 1, Len(payments)) = payments
          /\ CreatedTotal(payments, payments') <= XactTotal(bills, payments)]_vars

====
